---- MODULE Spec2Model ----
(***************************************************************************)
(* The DistanceRequest component (src/components/DistanceRequest/index.js) *)
(* as a state machine: the Onyx transaction record it is bound to, its     *)
(* React state and refs, the promises of the reorder handler that are      *)
(* still outstanding, and the calls it makes to its collaborators.         *)
(* Every action is one event (a store change, a network change, a drag     *)
(* end, a press on the button, a promise settling, the unmount) together   *)
(* with the render and the effects that event causes.                      *)
(***************************************************************************)
EXTENDS Integers, Sequences, FiniteSets, Bags, TLC

----------------------------------------------------------------------------
(* Bounds *)

\* The store holds at most this many waypoints in the component's life cycle.
MaxWaypoints == 2

\* At most this many reorders have commands outstanding at the same time.
MaxReorders == 2

\* The waypoint sets handed to the reorder handler on its own use slot keys
\* waypoint0 .. waypoint(MaxReorderKeys-1).
MaxReorderKeys == 4

----------------------------------------------------------------------------
(* Values *)

\* An empty waypoint record, {}.
Empty == "{}"

\* Waypoint records with an address and coordinates.
Addresses == {"A", "B"}

Contents == {Empty} \cup Addresses

\* The contents the store changes to during the component's life cycle.
StoreContents == {Empty, "A"}

\* null / undefined, and a present value.
Null == <<>>

Some(v) == <<v>>

NoID == ""

TransactionIDs == {"t1"}

\* The transaction the transactionID prop changes to.
OtherTransactionID == "t2"

\* A waypoint set: an object from slot keys (the number n of waypoint{n}) to
\* records. Equality of functions is _.isEqual of the objects.
DenseSets(n, contents) == [0..(n - 1) -> contents]

StoreWaypointSets == UNION {DenseSets(n, StoreContents) : n \in 1..MaxWaypoints}

ReorderInputs ==
    UNION {[K -> Contents] : K \in {S \in SUBSET (0..(MaxReorderKeys - 1)) : Cardinality(S) >= 2}}

----------------------------------------------------------------------------
(* Library functions *)

\* _.isEmpty of a waypoint record.
isEmpty(c) == c = Empty

\* lodashGet(waypoints, `waypoint${key}`, {})
lodashGet(waypoints, key) == IF key \in DOMAIN waypoints THEN waypoints[key] ELSE Empty

RECURSIVE sortedKeys(_)
sortedKeys(S) ==
    IF S = {} THEN <<>>
    ELSE LET m == CHOOSE x \in S : \A y \in S : x <= y
         IN <<m>> \o sortedKeys(S \ {m})

\* _.keys(waypoints): the slot keys, in the order waypoint0, waypoint1, ...
keys(waypoints) == sortedKeys(DOMAIN waypoints)

\* _.size
size(waypoints) == Cardinality(DOMAIN waypoints)

\* TransactionUtils.getValidWaypoints: the waypoints that are complete
\* enough for a route computation.
getValidWaypoints(waypoints) ==
    [k \in {j \in DOMAIN waypoints : waypoints[j] \in Addresses} |-> waypoints[k]]

\* TransactionUtils.hasRoute
hasRoute(tx) == tx.route

----------------------------------------------------------------------------
(* State *)

VARIABLES
    mounted,                     \* the component is mounted
    isEditingRequest,            \* prop
    isEditingNewRequest,         \* prop
    isOffline,                   \* useNetwork()
    transaction,                 \* the Onyx record the component is bound to
    optimisticWaypoints,         \* useState(null)
    hasError,                    \* useState(false)
    transactionWasSaved,         \* useRef(false)
    previousWaypoints,           \* usePrevious(waypoints)
    previousValidatedWaypoints,  \* usePrevious(validatedWaypoints)
    mountTransactionID,          \* transaction.transactionID as the mount effect closed over it
    promises,                    \* the Promise.all joins of the reorders with a command outstanding
    calls,                       \* the collaborator calls made by the last event
    lifecycleCalls,              \* the calls of the mount/unmount effect, all of them
    submitAccepted,              \* submitWaypoints has invoked onSubmit
    event                        \* the last event

vars == <<mounted, isEditingRequest, isEditingNewRequest, isOffline, transaction,
          optimisticWaypoints, hasError, transactionWasSaved, previousWaypoints,
          previousValidatedWaypoints, mountTransactionID, promises, calls,
          lifecycleCalls, submitAccepted, event>>

props == <<isEditingRequest, isEditingNewRequest>>

\* The transaction prop before the store has the record: defaultProps, {}.
EmptyTransaction ==
    [transactionID |-> NoID, waypoints |-> Null, commentIsLoading |-> FALSE,
     isLoading |-> FALSE, errorFieldsRoute |-> FALSE, route |-> FALSE]

\* The transaction records of the store.
LoadedTransactions ==
    [transactionID : TransactionIDs,
     waypoints : {Null} \cup {Some(w) : w \in StoreWaypointSets},
     commentIsLoading : BOOLEAN,
     isLoading : BOOLEAN,
     errorFieldsRoute : BOOLEAN,
     route : BOOLEAN]

StoreTransactions == LoadedTransactions \cup {EmptyTransaction}

\* A record with no route yet, no route error and nothing loading.
IdleTransactions ==
    {tx \in LoadedTransactions :
        /\ ~tx.commentIsLoading /\ ~tx.isLoading /\ ~tx.errorFieldsRoute /\ ~tx.route}

Call(fn, arg) == [fn |-> fn, arg |-> arg]

HasCall(cs, fn) == \E i \in 1..Len(cs) : cs[i].fn = fn

CountCalls(cs, fn) == Cardinality({i \in 1..Len(cs) : cs[i].fn = fn})

----------------------------------------------------------------------------
(* Values derived in a render *)

DefaultWaypoints == [k \in 0..1 |-> Empty]

\* optimisticWaypoints || lodashGet(transaction, 'comment.waypoints', {waypoint0: {}, waypoint1: {}})
waypointsOf(opt, tx) ==
    IF opt # Null THEN opt[1]
    ELSE IF tx.waypoints # Null THEN tx.waypoints[1]
    ELSE DefaultWaypoints

waypoints == waypointsOf(optimisticWaypoints, transaction)

waypointsList == keys(waypoints)

validatedWaypoints == getValidWaypoints(waypoints)

isLoadingRoute(tx) == tx.commentIsLoading

hasRouteError(tx) == tx.errorFieldsRoute

isEditing == isEditingNewRequest \/ isEditingRequest

\* shouldFetchRoute without the test of comment.isLoading.
shouldFetchRouteWhileLoading(tx, validated, previousValidated) ==
    ((~hasRoute(tx) /\ ~hasRouteError(tx)) \/ previousValidated # validated)
        /\ size(validated) > 1

shouldFetchRoute(tx, validated, previousValidated) ==
    LET haveValidatedWaypointsChanged == previousValidated # validated
        isRouteAbsentWithoutErrors == ~hasRoute(tx) /\ ~hasRouteError(tx)
    IN (isRouteAbsentWithoutErrors \/ haveValidatedWaypointsChanged)
           /\ ~isLoadingRoute(tx)
           /\ size(validated) > 1

\* The route effect without the test of isOffline.
routeEffectOffline(off, tx, validated, previousValidated) ==
    IF ~shouldFetchRoute(tx, validated, previousValidated) THEN <<>>
    ELSE <<Call("getRoute", validated)>>

\* The route effect: it runs after every render, validatedWaypoints being a
\* new object in each.
routeEffect(off, tx, validated, previousValidated) ==
    IF off \/ ~shouldFetchRoute(tx, validated, previousValidated) THEN <<>>
    ELSE <<Call("getRoute", validated)>>

\* The effect that creates the initial waypoints registers a cleanup when it
\* does not return early.
createsInitialWaypoints(tx) == tx.transactionID # NoID /\ tx.waypoints = Null

initialWaypointsEffect(tx) ==
    IF createsInitialWaypoints(tx) THEN <<Call("createInitialWaypoints", tx.transactionID)>>
    ELSE <<>>

\* The mount effect without the early return of the modes that do not edit.
backupEffectInEveryMode(editing, tx) ==
    <<Call("createBackupTransaction", tx.transactionID)>>

\* The mount effect.
backupEffect(editing, tx) ==
    IF editing THEN <<Call("createBackupTransaction", tx.transactionID)>> ELSE <<>>

\* The cleanup of the mount effect reading the transaction of the last
\* render instead of the one its closure holds.
backupCleanupOfLastRender(editing, saved, id) ==
    IF ~editing \/ saved THEN <<>>
    ELSE <<Call("restoreOriginalTransactionFromBackup", transaction.transactionID)>>

\* The cleanup of the mount effect without the test of transactionWasSaved.
backupCleanupAlways(editing, saved, id) ==
    IF ~editing THEN <<>>
    ELSE <<Call("restoreOriginalTransactionFromBackup", id)>>

\* The cleanup of the mount effect.
backupCleanup(editing, saved, id) ==
    IF ~editing \/ saved THEN <<>>
    ELSE <<Call("restoreOriginalTransactionFromBackup", id)>>

\* The effect comparing the numbers of waypoints only.
waypointsChangedInSize(previous, wps) == size(previous) # size(wps)

\* The effect that removes the error: it runs setHasError(false) unless the
\* waypoints equal those of the previous render.
waypointsChanged(previous, wps) == previous # wps

\* The condition with one valid waypoint being enough.
submitBlockedBelowOne(validated, tx, off) ==
    size(validated) < 1 \/ hasRouteError(tx) \/ isLoadingRoute(tx) \/ (tx.isLoading /\ ~off)

\* The condition with isLoading blocking offline too.
submitBlockedLoadingOffline(validated, tx, off) ==
    size(validated) < 2 \/ hasRouteError(tx) \/ isLoadingRoute(tx) \/ tx.isLoading

\* The condition of submitWaypoints under which it blocks.
submitBlocked(validated, tx, off) ==
    size(validated) < 2 \/ hasRouteError(tx) \/ isLoadingRoute(tx) \/ (tx.isLoading /\ ~off)

\* ErrorUtils.getLatestErrorField(transaction, 'route'): the most recent
\* message among the errors of the field; no message without an error.
getLatestErrorField(tx, field) ==
    IF field = "route" /\ tx.errorFieldsRoute
    THEN [key |-> "latest", message |-> "errorFields.route"]
    ELSE [key |-> "", message |-> ""]

\* {0: translate('iou.error.atLeastTwoDifferentWaypoints')}
TwoWaypointsMessage == [key |-> "0", message |-> "iou.error.atLeastTwoDifferentWaypoints"]

\* getError with the test of the waypoints first.
getErrorWaypointsFirst(tx, validated) ==
    IF size(validated) < 2 THEN Some(TwoWaypointsMessage)
    ELSE IF hasRouteError(tx) THEN Some(getLatestErrorField(tx, "route"))
    ELSE Null

\* getError(): Null is undefined.
getError(tx, validated) ==
    IF hasRouteError(tx) THEN Some(getLatestErrorField(tx, "route"))
    ELSE IF size(validated) < 2 THEN Some(TwoWaypointsMessage)
    ELSE Null

\* The condition with the error flag alone showing the message.
showsErrorOnFlag(he, tx, validated) == he \/ hasRouteError(tx)

\* The condition under which the render shows DotIndicatorMessage.
showsError(he, tx, validated) == (he /\ size(validated) < 2) \/ hasRouteError(tx)

\* messages of the DotIndicatorMessage of the last render, Null when the
\* render has none.
messages ==
    IF showsError(hasError, transaction, validatedWaypoints)
    THEN Some(getError(transaction, validatedWaypoints))
    ELSE Null

----------------------------------------------------------------------------
(* The reorder handler's computation *)

EmptyObject == [k \in {} |-> Empty]

RECURSIVE eachWaypoint(_, _, _, _)
eachWaypoint(data, wps, index, acc) ==
    IF index >= Len(data) THEN acc
    ELSE LET content == lodashGet(wps, data[index + 1])
             newWaypoints == [k \in DOMAIN acc.newWaypoints \cup {index} |->
                                 IF k = index THEN content ELSE acc.newWaypoints[k]]
             becomesEmpty == isEmpty(content) /\ ~isEmpty(lodashGet(wps, index))
         IN eachWaypoint(data, wps, index + 1,
                [newWaypoints |-> newWaypoints,
                 emptyWaypointIndex |-> IF becomesEmpty THEN index ELSE acc.emptyWaypointIndex])

\* A reorder that leaves every record in its slot.
reorderInPlace(data, wps) ==
    [newWaypoints |-> [k \in 0..(Len(data) - 1) |-> lodashGet(wps, k)],
     emptyWaypointIndex |-> -1]

\* newWaypoints and emptyWaypointIndex of updateWaypoints({data})
reorder(data, wps) ==
    eachWaypoint(data, wps, 0, [newWaypoints |-> EmptyObject, emptyWaypointIndex |-> -1])

\* The comparison of the two arrays by reference: never equal.
isEqualByReference(list, data) == FALSE

\* _.isEqual(waypointsList, data)
isEqual(list, data) == list = data

\* The orders a drag can leave the list in.
DragOrders(list) ==
    {p \in [1..Len(list) -> {list[i] : i \in 1..Len(list)}] :
        \A i, j \in 1..Len(list) : p[i] = p[j] => i = j}

----------------------------------------------------------------------------
(* Render and effects *)

\* The render that follows a change of the transaction tx, of the overlay
\* opt, of the error flag he or of the network state off, with its effects,
\* and the second render when an effect of the first changes the error flag.
\* txChanged: the transaction prop is a new object. handlerCalls: the calls
\* the event's handler made before the render.
Commit(tx, opt, he, off, txChanged, handlerCalls) ==
    LET wps == waypointsOf(opt, tx)
        validated == getValidWaypoints(wps)
        \* the cleanup of the initial-waypoints effect of the previous transaction
        cleanupRuns == txChanged /\ createsInitialWaypoints(transaction)
        initialCalls == IF txChanged THEN initialWaypointsEffect(tx) ELSE <<>>
        routeCalls == routeEffect(off, tx, validated, previousValidatedWaypoints)
        \* Whenever we change waypoints we need to remove the error
        cleared == cleanupRuns \/ waypointsChanged(previousWaypoints, wps)
        secondRender == he /\ cleared
        secondRouteCalls == IF secondRender THEN routeEffect(off, tx, validated, validated)
                            ELSE <<>>
    IN /\ transaction' = tx
       /\ optimisticWaypoints' = opt
       /\ isOffline' = off
       /\ hasError' = (he /\ ~cleared)
       /\ previousWaypoints' = wps
       /\ previousValidatedWaypoints' = validated
       /\ calls' = handlerCalls \o initialCalls \o routeCalls \o secondRouteCalls

\* A state update that is applied whether or not the component is mounted.
setStateRendersUnmounted(isMounted, state, value) == state # value

\* useState's setter: React renders again when the component is mounted and
\* the value differs from the state, and drops the update after the unmount.
setStateRenders(isMounted, state, value) == isMounted /\ state # value

\* No render: state and refs of the render stay.
NoRender == UNCHANGED <<transaction, optimisticWaypoints, isOffline, hasError,
                        previousWaypoints, previousValidatedWaypoints>>

----------------------------------------------------------------------------
(* Initial state: the component has mounted and its first effects have run *)

\* The props isEditingRequest and isEditingNewRequest of a mount.
Modes == {<<FALSE, FALSE>>, <<TRUE, FALSE>>, <<FALSE, TRUE>>}

Mounted(modes, network, txs) ==
    /\ mounted = TRUE
    /\ \E m \in modes : isEditingRequest = m[1] /\ isEditingNewRequest = m[2]
    /\ isOffline \in network
    /\ transaction \in txs
    /\ optimisticWaypoints = Null
    /\ hasError = FALSE
    /\ transactionWasSaved = FALSE
    /\ previousWaypoints = waypointsOf(Null, transaction)
    /\ previousValidatedWaypoints = getValidWaypoints(waypointsOf(Null, transaction))
    /\ mountTransactionID = transaction.transactionID
    /\ promises = EmptyBag
    /\ lifecycleCalls = backupEffect(isEditingNewRequest \/ isEditingRequest, transaction)
    /\ calls = lifecycleCalls
                 \o initialWaypointsEffect(transaction)
                 \o routeEffect(isOffline, transaction,
                                previousValidatedWaypoints, previousValidatedWaypoints)
    /\ submitAccepted = FALSE
    /\ event = [type |-> "mount"]

\* The code reads the two edit props only as their disjunction (lines 106
\* and 221): this specification mounts with isEditingRequest either way, the
\* lifecycle specification in every mode.
Init == Mounted({<<FALSE, FALSE>>, <<TRUE, FALSE>>}, BOOLEAN, LoadedTransactions)

----------------------------------------------------------------------------
(* Events *)

\* The store changes the transaction to tx; withOnyx re-renders.
OnyxMerge(tx) ==
    /\ mounted
    /\ transaction # EmptyTransaction
    /\ tx # transaction
    /\ Commit(tx, optimisticWaypoints, hasError, isOffline, TRUE, <<>>)
    /\ event' = [type |-> "render"]
    /\ UNCHANGED <<mounted, props, transactionWasSaved, mountTransactionID, promises,
                   lifecycleCalls, submitAccepted>>

\* The store gets the record of the transaction; withOnyx re-renders.
OnyxLoads ==
    /\ mounted
    /\ transaction = EmptyTransaction
    /\ \E tx \in IdleTransactions :
        Commit(tx, optimisticWaypoints, hasError, isOffline, TRUE, <<>>)
    /\ event' = [type |-> "render"]
    /\ UNCHANGED <<mounted, props, transactionWasSaved, mountTransactionID, promises,
                   lifecycleCalls, submitAccepted>>

\* comment.waypoints changes: a waypoint is saved, added or removed, or the
\* initial waypoints arrive.
OnyxWaypoints ==
    \E w \in StoreWaypointSets : OnyxMerge([transaction EXCEPT !.waypoints = Some(w)])

\* The transactionID prop changes: withOnyx binds the component to the
\* record of the other transaction.
TransactionIDChanges ==
    /\ transaction.transactionID \in TransactionIDs
    /\ \E tx \in IdleTransactions :
        OnyxMerge([tx EXCEPT !.transactionID = OtherTransactionID])

\* comment.isLoading, errorFields.route and the route change: a route
\* request starts, succeeds or fails, an error is dismissed.
OnyxRoute ==
    \E loading, error, route \in BOOLEAN :
        OnyxMerge([transaction EXCEPT !.commentIsLoading = loading,
                                      !.errorFieldsRoute = error,
                                      !.route = route])

\* isLoading of the transaction changes.
OnyxLoading == OnyxMerge([transaction EXCEPT !.isLoading = ~transaction.isLoading])

\* The device goes offline or comes back; useNetwork re-renders.
NetworkChange ==
    /\ mounted
    /\ Commit(transaction, optimisticWaypoints, hasError, ~isOffline, FALSE, <<>>)
    /\ event' = [type |-> "render"]
    /\ UNCHANGED <<mounted, props, transactionWasSaved, mountTransactionID, promises,
                   lifecycleCalls, submitAccepted>>

Outstanding == [removeWaypoint |-> "pending", updateWaypoints |-> "pending"]

\* onDragEnd of the list: updateWaypoints({data})
updateWaypoints ==
    /\ mounted
    /\ BagCardinality(promises) < MaxReorders
    /\ \E data \in DragOrders(waypointsList) :
        /\ event' = [type |-> "updateWaypoints", data |-> data]
        /\ IF isEqual(waypointsList, data)
           THEN /\ calls' = <<>>
                /\ NoRender
                /\ UNCHANGED promises
           ELSE LET r == reorder(data, waypoints)
                IN /\ promises' = promises (+) SetToBag({Outstanding})
                   /\ Commit(transaction, Some(r.newWaypoints), hasError, isOffline, FALSE,
                             <<Call("removeWaypoint", r.emptyWaypointIndex),
                               Call("updateWaypoints", r.newWaypoints)>>)
    /\ UNCHANGED <<mounted, props, transactionWasSaved, mountTransactionID, lifecycleCalls,
                   submitAccepted>>

\* onPress of the button: submitWaypoints()
submitWaypoints ==
    /\ mounted
    /\ event' = [type |-> "submitWaypoints"]
    /\ IF submitBlocked(validatedWaypoints, transaction, isOffline)
       THEN /\ IF hasError
               THEN calls' = <<>> /\ NoRender
               ELSE Commit(transaction, optimisticWaypoints, TRUE, isOffline, FALSE, <<>>)
            /\ UNCHANGED <<transactionWasSaved, submitAccepted>>
       ELSE /\ transactionWasSaved' = (transactionWasSaved \/ isEditing)
            /\ calls' = <<Call("onSubmit", waypoints)>>
            /\ submitAccepted' = TRUE
            /\ NoRender
    /\ UNCHANGED <<mounted, props, mountTransactionID, promises, lifecycleCalls>>

\* One of the two commands of a reorder settles. Promise.all fulfils when
\* both commands have fulfilled, and only then does the callback of then()
\* run: setOptimisticWaypoints(null), which React drops after the unmount.
Settle(join, command, outcome) ==
    LET settled == [join EXCEPT ![command] = outcome]
        allFulfilled == settled.removeWaypoint = "fulfilled" /\ settled.updateWaypoints = "fulfilled"
        noneLeft == settled.removeWaypoint # "pending" /\ settled.updateWaypoints # "pending"
        others == promises (-) SetToBag({join})
    IN /\ join[command] = "pending"
       /\ promises' = IF noneLeft THEN others ELSE others (+) SetToBag({settled})
       /\ event' = [type |-> "settle", outcome |-> outcome, then |-> allFulfilled]
       /\ IF allFulfilled /\ setStateRenders(mounted, optimisticWaypoints, Null)
          THEN Commit(transaction, Null, hasError, isOffline, FALSE, <<>>)
          ELSE calls' = <<>> /\ NoRender
       /\ UNCHANGED <<mounted, props, transactionWasSaved, mountTransactionID, lifecycleCalls,
                      submitAccepted>>

Commands == {"removeWaypoint", "updateWaypoints"}

CommandFulfils ==
    \E join \in BagToSet(promises) : \E c \in Commands : Settle(join, c, "fulfilled")

CommandRejects ==
    \E join \in BagToSet(promises) : \E c \in Commands : Settle(join, c, "rejected")

\* The component unmounts: the cleanup of the mount effect runs.
Unmount ==
    /\ mounted
    /\ mounted' = FALSE
    /\ calls' = backupCleanup(isEditing, transactionWasSaved, mountTransactionID)
    /\ lifecycleCalls' = lifecycleCalls \o calls'
    /\ event' = [type |-> "unmount"]
    /\ NoRender
    /\ UNCHANGED <<props, transactionWasSaved, mountTransactionID, promises, submitAccepted>>

----------------------------------------------------------------------------
(* Specifications *)

\* A reorder while no command of an earlier one is outstanding.
SoleDrag == promises = EmptyBag /\ updateWaypoints

\* The mounted component against a store that changes every field of the
\* transaction, with at most one reorder outstanding.
Next ==
    \/ OnyxWaypoints
    \/ OnyxRoute
    \/ OnyxLoading
    \/ NetworkChange
    \/ SoleDrag
    \/ submitWaypoints
    \/ CommandFulfils

Spec == Init /\ [][Next]_vars

\* From mount to unmount in every mode, from a record the store may not yet
\* have; the route fields of the transaction stay as they were at the mount.
InitLifecycle == Mounted(Modes, BOOLEAN, IdleTransactions \cup {EmptyTransaction})

NextLifecycle ==
    \/ OnyxLoads
    \/ TransactionIDChanges
    \/ OnyxWaypoints
    \/ NetworkChange
    \/ SoleDrag
    \/ submitWaypoints
    \/ CommandFulfils
    \/ Unmount

SpecLifecycle == InitLifecycle /\ [][NextLifecycle]_vars

\* The commands of the reorders: reorders that overlap, commands that fail,
\* the unmount with commands outstanding; online, editing a request.
InitPromises == Mounted({<<TRUE, FALSE>>}, {FALSE}, IdleTransactions)

NextPromises ==
    \/ OnyxWaypoints
    \/ updateWaypoints
    \/ submitWaypoints
    \/ CommandFulfils
    \/ CommandRejects
    \/ Unmount

SpecPromises == InitPromises /\ [][NextPromises]_vars

\* The reorder handler on its own: one drag of a waypoint set, and presses
\* on the button before and after it.
InitReorder ==
    Mounted({<<FALSE, FALSE>>}, {FALSE},
            [transactionID : TransactionIDs,
             waypoints : {Some(w) : w \in ReorderInputs},
             commentIsLoading : {FALSE},
             isLoading : {FALSE},
             errorFieldsRoute : {FALSE},
             route : {TRUE}])

NextReorder ==
    \/ SoleDrag
    \/ submitWaypoints

SpecReorder == InitReorder /\ [][NextReorder]_vars

----------------------------------------------------------------------------
(* Properties *)

\* The argument of the call of fn among the calls cs.
ArgOf(cs, fn) == cs[CHOOSE i \in 1..Len(cs) : cs[i].fn = fn].arg

\* C1: a drag that leaves the keys in an order P other than the current one
\* makes updateWaypoints produce a waypoint set with the keys waypoint0 ..
\* waypoint(N-1) whose slot i holds what was stored under P[i] before the
\* drag; that set is the optimistic overlay and the argument of
\* Transaction.updateWaypoints.
C1_ReorderRemapsContent ==
    [][(event'.type = "updateWaypoints" /\ event'.data # waypointsList) =>
        LET P == event'.data
            N == Len(P)
            before == waypoints
        IN /\ optimisticWaypoints' # Null
           /\ DOMAIN optimisticWaypoints'[1] = 0..(N - 1)
           /\ \A i \in 0..(N - 1) : optimisticWaypoints'[1][i] = before[P[i + 1]]
           /\ CountCalls(calls', "updateWaypoints") = 1
           /\ ArgOf(calls', "updateWaypoints") = optimisticWaypoints'[1]
      ]_vars

\* [A, B, {}] dragged to the order waypoint2, waypoint0, waypoint1.
C1_Witness ==
    /\ event.type = "updateWaypoints"
    /\ event.data = <<2, 0, 1>>
    /\ transaction.waypoints = Some((0 :> "A") @@ (1 :> "B") @@ (2 :> Empty))
    /\ optimisticWaypoints = Some((0 :> Empty) @@ (1 :> "A") @@ (2 :> "B"))
    /\ HasCall(calls, "updateWaypoints")

\* C2: after a reorder, every position whose content is empty while slot
\* waypoint{i} was not empty before is the index handed to
\* Transaction.removeWaypoint, and without such a position the index is -1.
C2_EveryEmptiedIndexReported ==
    [][(event'.type = "updateWaypoints" /\ event'.data # waypointsList) =>
        LET before == waypoints
            after == optimisticWaypoints'[1]
            emptied == {i \in DOMAIN after :
                           isEmpty(after[i]) /\ ~isEmpty(lodashGet(before, i))}
            reported == ArgOf(calls', "removeWaypoint")
        IN /\ \A i \in emptied : reported = i
           /\ emptied = {} => reported = -1
      ]_vars

\* How many waypoints of the displayed set are valid.
ValidCount == Cardinality({k \in DOMAIN waypoints : waypoints[k] \in Addresses})

Restores == CountCalls(lifecycleCalls, "restoreOriginalTransactionFromBackup")

\* C3: with fewer than two valid waypoints, submitWaypoints does not call
\* onSubmit and leaves hasError true, whatever the route, loading, offline
\* and edit-mode flags are.
C3_TooFewWaypointsBlocks ==
    (event.type = "submitWaypoints" /\ ValidCount < 2) =>
        (hasError /\ ~HasCall(calls, "onSubmit"))

\* One valid waypoint and nothing else that blocks, offline, in an edit mode.
C3_Witness ==
    /\ event.type = "submitWaypoints"
    /\ ValidCount = 1
    /\ ~transaction.errorFieldsRoute /\ ~transaction.commentIsLoading /\ transaction.route
    /\ isOffline /\ isEditingRequest
    /\ hasError

\* C4: mounted in an edit mode, the component calls
\* restoreOriginalTransactionFromBackup never before the unmount, once at
\* the unmount when no submit was accepted before it, and never when one was.
C4_RestoreOnceUnlessSaved ==
    isEditing =>
        Restores = (IF mounted \/ submitAccepted THEN 0 ELSE 1)

\* Unmounted after a reorder and an accepted submit: no restore.
C4_Witness ==
    /\ ~mounted
    /\ isEditingNewRequest
    /\ submitAccepted
    /\ Restores = 0
    /\ optimisticWaypoints # Null

\* C5: while the device is offline, Transaction.getRoute is not called, and
\* no event other than a blocked submit sets the error flag.
C5_NoRouteFetchOffline ==
    /\ [](isOffline => ~HasCall(calls, "getRoute"))
    /\ [][(isOffline' /\ event'.type # "submitWaypoints") => (hasError' => hasError)]_vars

\* A render while offline of two valid waypoints with no route, no route
\* error and no fetch in flight.
C5_Witness ==
    /\ isOffline
    /\ event.type = "render"
    /\ ValidCount = 2
    /\ ~transaction.route /\ ~transaction.errorFieldsRoute /\ ~transaction.commentIsLoading
    /\ calls = <<>>

\* C6: while a command of a reorder is outstanding the optimistic overlay is
\* not null, and once both commands of a reorder have fulfilled it is null.
C6_OverlayUntilBothSettle ==
    mounted =>
        /\ promises # EmptyBag => optimisticWaypoints # Null
        /\ (event.type = "settle" /\ event.then) => optimisticWaypoints = Null

\* C7: a command of a reorder that fails does not leave the optimistic
\* overlay set: once no command is outstanding the overlay is null.
C7_OverlayClearedAfterFailure ==
    (mounted /\ promises = EmptyBag) => optimisticWaypoints = Null

\* The component is online with two or more valid waypoints, no route, no
\* route error and no fetch in flight.
EligibleOnline ==
    /\ mounted
    /\ ~isOffline
    /\ ~transaction.route /\ ~transaction.errorFieldsRoute
    /\ ~transaction.commentIsLoading
    /\ ValidCount > 1

\* C8: while the component stays eligible and online and the valid waypoints
\* keep their value, a re-render issues no further Transaction.getRoute.
C8_OneFetchPerEligibility ==
    [][(EligibleOnline /\ EligibleOnline' /\ validatedWaypoints' = validatedWaypoints)
          => ~HasCall(calls', "getRoute")]_vars

\* C9: Transaction.getRoute is called only in a render in which (there is no
\* route and no route error, or the valid waypoints differ from those of the
\* previous render), no fetch is in flight and two or more waypoints are valid.
C9_FetchOnlyWhenEligible ==
    /\ [](HasCall(calls, "getRoute") => (~transaction.commentIsLoading /\ ValidCount > 1))
    /\ [][HasCall(calls', "getRoute") =>
            /\ (~transaction'.route /\ ~transaction'.errorFieldsRoute)
                   \/ validatedWaypoints' # previousValidatedWaypoints
            /\ ~transaction'.commentIsLoading
            /\ ValidCount' > 1
         ]_vars

\* A fetch for a transaction that has a route, its valid waypoints changed.
C9_Witness ==
    /\ HasCall(calls, "getRoute")
    /\ transaction.route
    /\ event.type = "render"

\* The outcome of the last event, a submit: blocked, or accepted.
SubmitBlocks == hasError /\ ~HasCall(calls, "onSubmit")

SubmitAccepts == CountCalls(calls, "onSubmit") = 1

\* C10: submitWaypoints blocks exactly when fewer than two waypoints are
\* valid, or there is a route error, or a route computation is in flight
\* (either loading flag is set) while the device is online; in every other
\* state, every offline state with two valid waypoints and no route error
\* among them, it accepts.
C10_BlocksExactlyWhen ==
    event.type = "submitWaypoints" =>
        IF ValidCount < 2 \/ transaction.errorFieldsRoute
              \/ ((transaction.commentIsLoading \/ transaction.isLoading) /\ ~isOffline)
        THEN SubmitBlocks
        ELSE SubmitAccepts

\* C10, amended: submitWaypoints blocks exactly when fewer than two waypoints
\* are valid, or there is a route error, or a route computation is in flight
\* (online or offline), or the transaction is loading while the device is
\* online; in every other state it accepts and calls onSubmit once.
C10_BlocksExactlyWhenAmended ==
    event.type = "submitWaypoints" =>
        IF ValidCount < 2 \/ transaction.errorFieldsRoute
              \/ transaction.commentIsLoading
              \/ (transaction.isLoading /\ ~isOffline)
        THEN SubmitBlocks
        ELSE SubmitAccepts

\* Offline with the transaction loading: the submit is accepted.
C10_Witness ==
    /\ event.type = "submitWaypoints"
    /\ isOffline /\ transaction.isLoading
    /\ HasCall(calls, "onSubmit")

\* C11: an accepted submit hands onSubmit the waypoints of the store's
\* transaction, not the optimistic overlay, also while a reorder is in
\* flight; and in an edit mode the saved flag is set by then.
C11_OnSubmitGetsStoreWaypoints ==
    (event.type = "submitWaypoints" /\ HasCall(calls, "onSubmit")) =>
        /\ ArgOf(calls, "onSubmit") = waypointsOf(Null, transaction)
        /\ isEditing => transactionWasSaved

\* C12: from a state with the error flag set, an event after which the
\* displayed waypoints have another value leaves the flag false, and an
\* event after which they have an equal value leaves it set.
C12_ErrorClearedOnValueChange ==
    [][hasError => (hasError' <=> waypoints' = waypoints)]_vars

\* The transaction changes while the cleanup of the effect that created the
\* initial waypoints is registered.
ResetsTransaction == transaction' # transaction /\ createsInitialWaypoints(transaction)

\* C12, amended: from a state with the error flag set, an event leaves the
\* flag set exactly when the displayed waypoints keep an equal value and the
\* event is not a change of a transaction that had an ID and no waypoints.
C12_ErrorClearedOnValueChangeAmended ==
    [][hasError => (hasError' <=> (waypoints' = waypoints /\ ~ResetsTransaction))]_vars

\* The flag is still set after a render caused by the store or the network.
C12_Witness ==
    /\ hasError
    /\ event.type = "render"
    /\ transaction.waypoints # Null

\* C13: getError returns the latest error of the route field whenever the
\* transaction has a route error, also with fewer than two valid waypoints;
\* without a route error the two-waypoint message under key 0 when fewer
\* than two waypoints are valid; and undefined otherwise.
C13_GetErrorPriority ==
    LET error == getError(transaction, validatedWaypoints)
    IN /\ transaction.errorFieldsRoute =>
              error = Some([key |-> "latest", message |-> "errorFields.route"])
       /\ (~transaction.errorFieldsRoute /\ ValidCount < 2) =>
              error = Some([key |-> "0", message |-> "iou.error.atLeastTwoDifferentWaypoints"])
       /\ (~transaction.errorFieldsRoute /\ ValidCount >= 2) => error = Null

\* A route error with one valid waypoint after a blocked submit: the render
\* shows the route error.
C13_Witness ==
    /\ transaction.errorFieldsRoute
    /\ ValidCount = 1
    /\ hasError
    /\ messages = Some(Some([key |-> "latest", message |-> "errorFields.route"]))

Backups == CountCalls(lifecycleCalls, "createBackupTransaction")

\* C14: mounted in an edit mode the component calls createBackupTransaction
\* once, at the mount, and no later event calls it again; mounted in no edit
\* mode it calls neither createBackupTransaction nor
\* restoreOriginalTransactionFromBackup, at the mount, in a re-render or at
\* the unmount.
C14_BackupOnceAtMount ==
    /\ Backups = (IF isEditing THEN 1 ELSE 0)
    /\ event.type # "mount" => ~HasCall(calls, "createBackupTransaction")
    /\ ~isEditing =>
          /\ Restores = 0
          /\ ~HasCall(calls, "restoreOriginalTransactionFromBackup")

\* Unmounted without a save after the record loaded and a reorder: one
\* backup, made at the mount.
C14_Witness ==
    /\ ~mounted
    /\ isEditingRequest
    /\ transaction # EmptyTransaction
    /\ optimisticWaypoints # Null
    /\ Backups = 1
    /\ Restores = 1

\* C15: a reorder after which no position is empty that held a record
\* before calls Transaction.updateWaypoints and does not call
\* Transaction.removeWaypoint.
C15_RemoveOnlyWhenEmptied ==
    [][(event'.type = "updateWaypoints" /\ event'.data # waypointsList) =>
        LET after == optimisticWaypoints'[1]
            emptied == {i \in DOMAIN after :
                           isEmpty(after[i]) /\ ~isEmpty(lodashGet(waypoints, i))}
        IN emptied = {} =>
               /\ ~HasCall(calls', "removeWaypoint")
               /\ CountCalls(calls', "updateWaypoints") = 1
      ]_vars

\* C16: a drag that leaves the keys in the order of the current waypoint
\* list changes neither the optimistic overlay nor the error flag nor the
\* saved flag and calls neither Transaction.removeWaypoint nor
\* Transaction.updateWaypoints.
C16_SameOrderIsNoOp ==
    [][(event'.type = "updateWaypoints" /\ event'.data = waypointsList) =>
        /\ UNCHANGED <<optimisticWaypoints, hasError, transactionWasSaved>>
        /\ ~HasCall(calls', "removeWaypoint")
        /\ ~HasCall(calls', "updateWaypoints")
      ]_vars

\* A drag back into the same order while the overlay of an earlier reorder
\* is set, after an accepted submit, with the error flag up.
C16_Witness ==
    /\ event.type = "updateWaypoints"
    /\ event.data = waypointsList
    /\ optimisticWaypoints # Null
    /\ transactionWasSaved
    /\ hasError
    /\ calls = <<>>

\* C17: with reorders that overlap, the optimistic overlay is set in every
\* state in which a command of some reorder is outstanding: the commands of
\* an earlier reorder settling do not clear the overlay of a later one.
C17_OverlayKeptForLaterReorder ==
    (mounted /\ BagCardinality(promises) > 0) => optimisticWaypoints # Null

ErrorDisplayed == messages # Null

\* C19: whenever the render shows the error message (a route error, or the
\* error flag with fewer than two valid waypoints), getError returns a
\* message; and a submit blocked with two or more valid waypoints and no
\* route error, a route computation being in flight, sets the error flag and
\* the render shows no message.
C19_DisplayedErrorIsDefined ==
    /\ (transaction.errorFieldsRoute \/ (hasError /\ ValidCount < 2)) =>
           (ErrorDisplayed /\ messages[1] # Null)
    /\ ErrorDisplayed => getError(transaction, validatedWaypoints) # Null
    /\ (/\ event.type = "submitWaypoints"
        /\ ~HasCall(calls, "onSubmit")
        /\ ValidCount >= 2
        /\ ~transaction.errorFieldsRoute) =>
           (hasError /\ ~ErrorDisplayed)

\* A submit blocked by the route computation in flight alone.
C19_Witness ==
    /\ event.type = "submitWaypoints"
    /\ transaction.commentIsLoading
    /\ ValidCount = 2
    /\ ~transaction.errorFieldsRoute
    /\ hasError
    /\ messages = Null

\* C20: the restore at the unmount is called with the transactionID of the
\* transaction that createBackupTransaction got at the mount, whatever the
\* record and the transactionID are at the unmount.
C20_RestoreTargetsBackedUpTransaction ==
    \A i \in 1..Len(lifecycleCalls) :
        lifecycleCalls[i].fn = "restoreOriginalTransactionFromBackup" =>
            /\ Backups = 1
            /\ lifecycleCalls[i].arg = ArgOf(lifecycleCalls, "createBackupTransaction")

\* Unmounted without a save after the transactionID changed.
C20_Witness ==
    /\ ~mounted
    /\ transaction.transactionID = OtherTransactionID
    /\ Restores = 1
    /\ ArgOf(lifecycleCalls, "restoreOriginalTransactionFromBackup") = "t1"

====
